---- MODULE Spec2Model ----
(***************************************************************************)
(* Model of the vitoconnect request scheduler (SmartQueue) and of the      *)
(* dispatcher VitoConnect::loop() with its completion handlers.            *)
(*                                                                         *)
(* Time is the 32-bit millisecond clock millis().  A uint32_t is kept as   *)
(* the pair <<high half-word, low half-word>>, so that unsigned            *)
(* subtraction wraps modulo 2^32 exactly as in the code.                   *)
(***************************************************************************)
EXTENDS Integers, Sequences, FiniteSets, TLC

VARIABLES
    smart_queue_,   \* the SmartQueue member of VitoConnect (record of its fields)
    now,            \* millis()
    opto_ready,     \* _optolink->is_ready()
    opto_queue,     \* tokens of the pushes the transport accepted and has not completed
    num_points,     \* _datapoints.size(): the registered points, numbered from 1
    pending,        \* the points whose getLastUpdate() is not 0 (a local write is pending)
    dp_value,       \* the local value of each writable point
    last_datapoint_index,  \* static cursor of update()
    cleanup_counter,       \* static counter of update()
    next_arg,       \* identity of the next CbArg allocated by "new CbArg"
    freed,          \* identities of the CbArgs that were deleted
    crashed,        \* an access to a deleted CbArg brought the program down
    timed_out,      \* history: identities of the CbArgs whose request get_next() force-released
    retry_age,      \* history: ms since the last retry_current() that found a request
                    \* selected, counted up to RETRY_DELAY_MS; -1 before the first one
    release_age,    \* history: ms since the last release_current() that removed a
                    \* request, counted up to INTER_COMM_DELAY_MS; -1 before the first one
    push_age,       \* history: ms since the last push the transport accepted, counted
                    \* up to INTER_COMM_DELAY_MS; -1 before the first one
    last_class,     \* history: class of the request the last get_next() call returned,
                    \* "none" if it returned nullptr or if release_current() or
                    \* retry_current() was called since
    requests,       \* number of enqueue() calls made by Request so far
    advances,       \* number of clock advances so far
    event           \* history: the handler that ran last and what it did; got is the
                    \* pointer get_next() returned to loop(), or the <<byte, whether
                    \* the length was the expected one>> handed to _onData

vars == <<smart_queue_, now, opto_ready, opto_queue, num_points, pending, dp_value,
          last_datapoint_index, cleanup_counter, next_arg, freed, crashed,
          timed_out, retry_age, release_age, push_age, last_class, requests,
          advances, event>>

\* the points and the statics of update()
producer == <<num_points, pending, dp_value, last_datapoint_index, cleanup_counter>>

\* the history of the dispatcher: what loop() and the completions last did
dispatched == <<release_age, push_age, last_class>>

----------------------------------------------------------------------------
(* Bounds of the model *)

MaxAddr == 1
MaxComp == 1
MaxArgs == 2
MaxAdvance == 2
MaxOutstanding == 2
MaxValue == 2
MaxFill == 61
MaxFillAdvance == 1
MaxRequests == 1
MaxPoints == 90
MaxPairClock == 150

(* Program constants *)

MAX_QUEUE_SIZE == 64
INTER_COMM_DELAY_MS == 50
REQUEST_TIMEOUT_MS == 30000
RETRY_DELAY_MS == 50
DEDUP_READ_THRESHOLD == 10
OPTOLINK_MAX == 64
BATCH_SIZE == 20
CLEANUP_PERIOD == 10

\* the points registered when the store is filled to its capacity
FillPoints == MAX_QUEUE_SIZE + 1

----------------------------------------------------------------------------
(* uint32_t arithmetic on <<high, low>> half-word pairs *)

Half == 2^16

U32(hi, lo) == <<hi, lo>>

Zero32 == U32(0, 0)

Add32(a, b) ==
    LET lo == a[2] + b[2]
        carry == IF lo >= Half THEN 1 ELSE 0
    IN  U32((a[1] + b[1] + carry) % Half, lo % Half)

Sub32(a, b) ==
    LET borrow == IF a[2] < b[2] THEN 1 ELSE 0
    IN  U32((a[1] - b[1] - borrow) % Half, (a[2] - b[2]) % Half)

\* a < n, a > n, a >= n for a uint32_t a and a constant n below 2^16
Lt32(a, n) == a[1] = 0 /\ a[2] < n
Gt32(a, n) == a[1] > 0 \/ a[2] > n
Ge32(a, n) == a[1] > 0 \/ a[2] >= n

----------------------------------------------------------------------------
(* struct CbArg: the completion context.  Its fields never change after     *)
(* construction, so the pointer is modelled by the record itself; id tells  *)
(* two allocations apart and d is <<>> for nullptr, <<bytes>> otherwise.    *)

CbArg(id, dp, w, d) == [id |-> id, dp |-> dp, w |-> w, d |-> d]

NULL == CbArg(0, 0, FALSE, <<>>)

(* struct QueuedRequest *)

QueuedRequest(address, is_write, arg, comp_type, t) ==
    [address |-> address, is_write |-> is_write, callback_arg |-> arg,
     component_type |-> comp_type, enqueue_time |-> t]

matches(req, addr, write, comp_type) ==
    req.address = addr /\ req.is_write = write /\ req.component_type = comp_type

----------------------------------------------------------------------------
(* class SmartQueue: every method is an operator on the record q of the     *)
(* object's fields; a method that returns a value yields [q, ret].  A       *)
(* QueuedRequest* is a sequence: <<>> for nullptr, <<req>> otherwise.       *)

SmartQueueCtor ==
    [write_queue_ |-> <<>>, read_queue_ |-> <<>>,
     has_current_ |-> FALSE, current_is_write_ |-> FALSE,
     last_comm_time_ |-> Zero32, last_retry_time_ |-> Zero32]

size(q) == Len(q.write_queue_) + Len(q.read_queue_)

is_empty(q) == q.write_queue_ = <<>> /\ q.read_queue_ = <<>>

\* the front by priority, whatever class is in flight
get_front_by_priority(q) ==
    IF ~q.has_current_ THEN <<>>
    ELSE IF q.write_queue_ # <<>> THEN <<Head(q.write_queue_)>>
    ELSE IF q.read_queue_ # <<>> THEN <<Head(q.read_queue_)>>
    ELSE <<>>

get_current_ptr(q) ==
    IF ~q.has_current_ THEN <<>>
    ELSE IF q.current_is_write_
         THEN (IF q.write_queue_ = <<>> THEN <<>> ELSE <<Head(q.write_queue_)>>)
         ELSE (IF q.read_queue_ = <<>> THEN <<>> ELSE <<Head(q.read_queue_)>>)

\* the duplicate scan that looks at the in-flight request only
has_pending_in_flight(q, address, is_write, comp_type) ==
    LET current == get_current_ptr(q)
    IN  /\ q.has_current_
        /\ q.current_is_write_ = is_write
        /\ current # <<>>
        /\ matches(current[1], address, is_write, comp_type)

has_pending(q, address, is_write, comp_type) ==
    LET queue == IF is_write THEN q.write_queue_ ELSE q.read_queue_
        current == get_current_ptr(q)
    IN  \/ \E i \in DOMAIN queue : matches(queue[i], address, is_write, comp_type)
        \/ /\ q.has_current_
           /\ q.current_is_write_ = is_write
           /\ current # <<>>
           /\ matches(current[1], address, is_write, comp_type)

\* the capacity test letting one request too many in
QueueFullOffByOne(q) == size(q) > MAX_QUEUE_SIZE

\* the capacity test at the head of enqueue()
QueueFull(q) == size(q) >= MAX_QUEUE_SIZE

\* the duplicate scan run for a large read queue only, writes included
DedupCheckedLargeOnly(is_write, reads) == reads > DEDUP_READ_THRESHOLD

\* the condition under which enqueue() runs the duplicate scan
DedupChecked(is_write, reads) == is_write \/ reads > DEDUP_READ_THRESHOLD

\* an enqueue that inserts at the front of the class
enqueue_at_front(q, t, address, is_write, arg, comp_type) ==
    IF QueueFull(q)
    THEN [q |-> q, ret |-> FALSE, dup |-> FALSE]
    ELSE IF /\ DedupChecked(is_write, Len(q.read_queue_))
            /\ has_pending(q, address, is_write, comp_type)
    THEN [q |-> q, ret |-> TRUE, dup |-> TRUE]
    ELSE LET req == QueuedRequest(address, is_write, arg, comp_type, t)
         IN  [q |-> IF is_write
                    THEN [q EXCEPT !.write_queue_ = <<req>> \o @]
                    ELSE [q EXCEPT !.read_queue_ = <<req>> \o @],
              ret |-> TRUE, dup |-> FALSE]

enqueue(q, t, address, is_write, arg, comp_type) ==
    IF QueueFull(q)
    THEN [q |-> q, ret |-> FALSE, dup |-> FALSE]
    ELSE IF /\ DedupChecked(is_write, Len(q.read_queue_))
            /\ has_pending(q, address, is_write, comp_type)
    THEN [q |-> q, ret |-> TRUE, dup |-> TRUE]
    ELSE LET req == QueuedRequest(address, is_write, arg, comp_type, t)
         IN  [q |-> IF is_write
                    THEN [q EXCEPT !.write_queue_ = Append(@, req)]
                    ELSE [q EXCEPT !.read_queue_ = Append(@, req)],
              ret |-> TRUE, dup |-> FALSE]

\* a release that does not look at the in-flight flag
release_current_unguarded(q, t) ==
    [q EXCEPT
        !.last_comm_time_ = t,
        !.last_retry_time_ = Zero32,
        !.write_queue_ = IF q.current_is_write_ /\ @ # <<>> THEN Tail(@) ELSE @,
        !.read_queue_ = IF ~q.current_is_write_ /\ @ # <<>> THEN Tail(@) ELSE @,
        !.has_current_ = FALSE]

release_current(q, t) ==
    IF ~q.has_current_ THEN q
    ELSE [q EXCEPT
            !.last_comm_time_ = t,
            !.last_retry_time_ = Zero32,
            !.write_queue_ = IF q.current_is_write_ /\ @ # <<>> THEN Tail(@) ELSE @,
            !.read_queue_ = IF ~q.current_is_write_ /\ @ # <<>> THEN Tail(@) ELSE @,
            !.has_current_ = FALSE]

\* a retry that also restarts the pacing
retry_current_paced(q, t) ==
    IF ~q.has_current_ THEN q
    ELSE [q EXCEPT !.last_retry_time_ = t, !.last_comm_time_ = t,
                   !.has_current_ = FALSE]

retry_current(q, t) ==
    IF ~q.has_current_ THEN q
    ELSE [q EXCEPT !.last_retry_time_ = t, !.has_current_ = FALSE]

\* the age test with >= in the place of >
ExpiredAtTimeout(t, enqueue_time) == Ge32(Sub32(t, enqueue_time), REQUEST_TIMEOUT_MS)

\* the age test shared by get_next() and cleanup_stale()
Expired(t, enqueue_time) == Gt32(Sub32(t, enqueue_time), REQUEST_TIMEOUT_MS)

\* the retry throttle test at the head of get_next()
Throttled(q, t) ==
    /\ q.last_retry_time_ # Zero32
    /\ Lt32(Sub32(t, q.last_retry_time_), RETRY_DELAY_MS)

\* the pacing test with a spacing of 1 ms
PacedShort(q, t) ==
    ~q.has_current_ /\ Lt32(Sub32(t, q.last_comm_time_), 1)

\* the pacing test of get_next()
Paced(q, t) ==
    ~q.has_current_ /\ Lt32(Sub32(t, q.last_comm_time_), INTER_COMM_DELAY_MS)

\* the selection that takes a write only when no read is queued
ReadFirst(q) == q.write_queue_ # <<>> /\ q.read_queue_ = <<>>

\* !write_queue_.empty(): a write is selected before any read
WriteFirst(q) == q.write_queue_ # <<>>

\* ret: the returned pointer; expired: the request force-released by the timeout
get_next(q, t) ==
    IF Throttled(q, t) THEN [q |-> q, ret |-> <<>>, expired |-> <<>>]
    ELSE IF Paced(q, t) THEN [q |-> q, ret |-> <<>>, expired |-> <<>>]
    ELSE IF q.has_current_
    THEN LET current == get_current_ptr(q) IN
         IF current = <<>>
         THEN [q |-> [q EXCEPT !.has_current_ = FALSE, !.last_retry_time_ = Zero32],
               ret |-> <<>>, expired |-> <<>>]
         ELSE IF Expired(t, current[1].enqueue_time)
         THEN [q |-> [release_current(q, t) EXCEPT !.last_retry_time_ = Zero32],
               ret |-> <<>>, expired |-> current]
         ELSE [q |-> q, ret |-> current, expired |-> <<>>]
    ELSE IF WriteFirst(q)
    THEN [q |-> [q EXCEPT !.has_current_ = TRUE, !.current_is_write_ = TRUE,
                          !.last_retry_time_ = Zero32],
          ret |-> <<Head(q.write_queue_)>>, expired |-> <<>>]
    ELSE IF q.read_queue_ # <<>>
    THEN [q |-> [q EXCEPT !.has_current_ = TRUE, !.current_is_write_ = FALSE,
                          !.last_retry_time_ = Zero32],
          ret |-> <<Head(q.read_queue_)>>, expired |-> <<>>]
    ELSE [q |-> q, ret |-> <<>>, expired |-> <<>>]

\* the lambda of cleanup_stale(): erase every element older than the timeout
RECURSIVE cleanup(_, _)
cleanup(queue, t) ==
    IF queue = <<>> THEN <<>>
    ELSE IF Expired(t, Head(queue).enqueue_time)
         THEN cleanup(Tail(queue), t)
         ELSE <<Head(queue)>> \o cleanup(Tail(queue), t)

\* a periodic cleanup that evicts nothing
cleanup_stale_skipped(q, t) == q

cleanup_stale(q, t) ==
    [q EXCEPT !.write_queue_ = cleanup(@, t), !.read_queue_ = cleanup(@, t)]

----------------------------------------------------------------------------
(* Views of the store used by the history variable and by the properties    *)

Range(s) == {s[i] : i \in DOMAIN s}

\* the stored requests: write queue followed by read queue
Store(q) == q.write_queue_ \o q.read_queue_

StoreArgs(q) == {r.callback_arg.id : r \in Range(Store(q))}

\* the CbArg of the request the in-flight flag refers to, NULL when there is none
CurrentArg(q) ==
    IF get_current_ptr(q) = <<>> THEN NULL ELSE get_current_ptr(q)[1].callback_arg

\* the class of a request
Class(req) == IF req.is_write THEN "write" ELSE "read"

NoKey == <<0, FALSE, 0>>

Event(op, key, arg, ret, got, removed) ==
    [op |-> op, key |-> key, arg |-> arg, ret |-> ret, got |-> got, removed |-> removed]

----------------------------------------------------------------------------
(* The registered points.  Point i has address i and the component id i;    *)
(* the points 1..MaxAddr are writable, the others are read-only.            *)

Values == 1..MaxValue

Writable == 1..MaxAddr

PointAddress(i) == i

\* comp_id = (reinterpret_cast<uintptr_t>(dp) >> 4) & 0xFF
PointCompId(i) == i % 256

----------------------------------------------------------------------------
(* Initial state: the objects as constructed at boot with n registered      *)
(* points; the transport starts in its initialisation phase.                *)

Boot(n) ==
    /\ smart_queue_ = SmartQueueCtor
    /\ now = Zero32
    /\ opto_ready = FALSE
    /\ opto_queue = <<>>
    /\ num_points = n
    /\ pending = {}
    /\ dp_value = [i \in Writable |-> 1]
    /\ last_datapoint_index = 0
    /\ cleanup_counter = 0
    /\ next_arg = 1
    /\ freed = {}
    /\ crashed = FALSE
    /\ timed_out = {}
    /\ retry_age = -1
    /\ release_age = -1
    /\ push_age = -1
    /\ last_class = "none"
    /\ requests = 0
    /\ advances = 0
    /\ event = Event("init", NoKey, NULL, FALSE, <<>>, {})

Init == Boot(MaxAddr)

InitFill == Boot(FillPoints)

----------------------------------------------------------------------------
(* The transport (Optolink), known here only through the calls loop() makes *)

\* a readiness gate that always lets loop() through
AlwaysReady == TRUE

\* _optolink->is_ready()
is_ready == opto_ready

\* _optolink->queue_size()
queue_size == Len(opto_queue)

\* the watermark test that waits for a full transport queue
OptolinkBusyWhenFull(depth) == depth >= OPTOLINK_MAX

\* queue_size() > OPTOLINK_MAX * 0.8, in tenths
OptolinkBusy(depth) == depth * 10 > OPTOLINK_MAX * 8

\* the results _optolink->read() / _optolink->write() can give
PushResults == IF queue_size < MaxOutstanding THEN {TRUE, FALSE} ELSE {FALSE}

\* the result of a push to a transport with the queue length loop() assumes
TransportResults == {queue_size < OPTOLINK_MAX}

\* _optolink->loop(): the protocol state machine enters or leaves RESET/INIT
OptolinkLoop ==
    /\ ~crashed
    /\ opto_ready' = ~opto_ready
    /\ event' = Event("optolink", NoKey, NULL, opto_ready', <<>>, {})
    /\ UNCHANGED <<smart_queue_, now, opto_queue, producer, next_arg, freed, crashed,
                   timed_out, retry_age, dispatched, requests, advances>>

----------------------------------------------------------------------------
(* SmartQueue::enqueue called with a newly allocated CbArg *)

EnqueueCall(address, is_write, comp_type) ==
    /\ ~crashed
    /\ LET arg == CbArg(next_arg, address, is_write, <<>>)
           r == enqueue(smart_queue_, now, address, is_write, arg, comp_type)
       IN  /\ smart_queue_' = r.q
           /\ event' = Event("enqueue", <<address, is_write, comp_type>>, arg,
                             r.ret, <<>>, {})
    /\ next_arg' = next_arg + 1
    /\ UNCHANGED <<now, opto_ready, opto_queue, producer, freed, crashed, timed_out,
                   retry_age, dispatched, advances>>

\* a request with any key
Enqueue(address, is_write, comp_type) ==
    /\ next_arg <= MaxArgs
    /\ EnqueueCall(address, is_write, comp_type)
    /\ UNCHANGED requests

\* a request made while the producer runs, MaxRequests times at most
Request(address, is_write, comp_type) ==
    /\ requests < MaxRequests
    /\ EnqueueCall(address, is_write, comp_type)
    /\ requests' = requests + 1

\* enqueue() called with a null completion context
RequestNull(address, is_write, comp_type) ==
    /\ ~crashed
    /\ requests < MaxRequests
    /\ LET r == enqueue(smart_queue_, now, address, is_write, NULL, comp_type)
       IN  /\ smart_queue_' = r.q
           /\ event' = Event("enqueue", <<address, is_write, comp_type>>, NULL,
                             r.ret, <<>>, {})
    /\ requests' = requests + 1
    /\ UNCHANGED <<now, opto_ready, opto_queue, producer, next_arg, freed, crashed,
                   timed_out, retry_age, dispatched, advances>>

----------------------------------------------------------------------------
(* VitoConnect::update().  The state threaded through its loops is          *)
(* [q, next, freed, ok]: the queue, the next allocation, the deleted        *)
(* CbArgs, and whether every enqueue so far returned true.                  *)

\* pass 1: a write and its verification read for every point i..n with a
\* pending local modification
RECURSIVE Pass1(_, _, _, _, _, _)
Pass1(i, n, st, t, pend, value) ==
    IF i > n THEN st
    ELSE IF i \notin pend THEN Pass1(i + 1, n, st, t, pend, value)
    ELSE LET writeCbArg == CbArg(st.next, i, TRUE, <<>>)
             w == enqueue(st.q, t, PointAddress(i), TRUE, writeCbArg, PointCompId(i))
         IN  IF ~w.ret
             THEN Pass1(i + 1, n,
                        [q |-> w.q, next |-> st.next + 1,
                         freed |-> st.freed \cup {writeCbArg.id}, ok |-> FALSE],
                        t, pend, value)
             ELSE LET readCbArg == CbArg(st.next + 1, i, FALSE, <<value[i]>>)
                      r == enqueue(w.q, t, PointAddress(i), FALSE, readCbArg,
                                   PointCompId(i))
                  IN  Pass1(i + 1, n,
                            [q |-> r.q, next |-> st.next + 2,
                             freed |-> IF r.ret THEN st.freed
                                       ELSE st.freed \cup {readCbArg.id},
                             ok |-> st.ok /\ r.ret],
                            t, pend, value)

\* pass 2: baseline reads from the 0-based index i on; stops after BATCH_SIZE
\* accepted calls.  Yields the state and the new cursor, -1 when the walk
\* reached the end of the list.
\* the batch test letting one point too many in
BatchReachedLate(processed) == processed > BATCH_SIZE

\* datapoints_processed >= BATCH_SIZE
BatchReached(processed) == processed >= BATCH_SIZE

RECURSIVE Pass2(_, _, _, _, _)
Pass2(i, n, processed, st, t) ==
    IF i >= n THEN [st |-> st, cursor |-> -1]
    ELSE LET arg == CbArg(st.next, i + 1, FALSE, <<>>)
             r == enqueue(st.q, t, PointAddress(i + 1), FALSE, arg, PointCompId(i + 1))
         IN  IF ~r.ret
             THEN Pass2(i + 1, n, processed,
                        [q |-> r.q, next |-> st.next + 1,
                         freed |-> st.freed \cup {arg.id}, ok |-> FALSE], t)
             ELSE IF BatchReached(processed + 1)
             THEN [st |-> [q |-> r.q, next |-> st.next + 1, freed |-> st.freed,
                           ok |-> st.ok],
                   cursor |-> i + 1]
             ELSE Pass2(i + 1, n, processed + 1,
                        [q |-> r.q, next |-> st.next + 1, freed |-> st.freed,
                         ok |-> st.ok], t)

\* the tail of update(): the cursor, the periodic cleanup_stale(), and the
\* assignment of the result p2 of the two passes
UpdateDone(p2) ==
    LET batched == p2.cursor >= 0
        clean == ~batched /\ cleanup_counter + 1 >= CLEANUP_PERIOD
    IN  /\ smart_queue_' = IF clean THEN cleanup_stale(p2.st.q, now) ELSE p2.st.q
        /\ next_arg' = p2.st.next
        /\ freed' = p2.st.freed
        /\ last_datapoint_index' = IF batched THEN p2.cursor ELSE 0
        /\ cleanup_counter' = IF batched THEN cleanup_counter
                              ELSE IF clean THEN 0 ELSE cleanup_counter + 1
        /\ event' = Event("update", NoKey, NULL, p2.st.ok, <<>>,
                          StoreArgs(p2.st.q) \ StoreArgs(smart_queue_'))

update ==
    /\ ~crashed
    /\ next_arg <= MaxFill
    /\ \E p1 \in {Pass1(1, num_points,
                        [q |-> smart_queue_, next |-> next_arg, freed |-> freed,
                         ok |-> TRUE],
                        now, pending, dp_value)} :
       \E p2 \in {Pass2(last_datapoint_index, num_points, 0, p1, now)} :
          UpdateDone(p2)
    /\ UNCHANGED <<now, opto_ready, opto_queue, num_points, pending, dp_value, crashed,
                   timed_out, retry_age, dispatched, requests, advances>>

\* a local modification of a writable point (Datapoint::setLastUpdate)
Modify(i, v) ==
    /\ ~crashed
    /\ i <= num_points
    /\ i \notin pending
    /\ pending' = pending \cup {i}
    /\ dp_value' = [dp_value EXCEPT ![i] = v]
    /\ event' = Event("modify", NoKey, NULL, TRUE, <<>>, {})
    /\ UNCHANGED <<smart_queue_, now, opto_ready, opto_queue, num_points,
                   last_datapoint_index, cleanup_counter, next_arg, freed, crashed,
                   timed_out, retry_age, dispatched, requests, advances>>

\* a further local modification of a point whose write is still pending
ModifyAgain(i, v) ==
    /\ ~crashed
    /\ i \in pending
    /\ dp_value[i] # v
    /\ dp_value' = [dp_value EXCEPT ![i] = v]
    /\ event' = Event("modify", NoKey, NULL, TRUE, <<>>, {})
    /\ UNCHANGED <<smart_queue_, now, opto_ready, opto_queue, num_points, pending,
                   last_datapoint_index, cleanup_counter, next_arg, freed, crashed,
                   timed_out, retry_age, dispatched, requests, advances>>

----------------------------------------------------------------------------
(* VitoConnect::loop(), after its call of _optolink->loop() *)

\* what a tick leaves behind: queue, accepted push (<<>> or <<token>>), the
\* pointer get_next() returned, the request the timeout released, whether
\* retry_current() was called
Tick(q, push, got, expired, retried) ==
    [q |-> q, push |-> push, got |-> got, expired |-> expired, retried |-> retried]

\* a null test that lets every context through
MalformedContextIgnored(req) == FALSE

\* req->callback_arg == nullptr
MalformedContext(req) == req.callback_arg = NULL

\* the outcomes of one loop() tick
loop(q, t, ready, depth, results) ==
    IF ~ready
    THEN {Tick(retry_current(q, t), <<>>, <<>>, <<>>, TRUE)}
    ELSE LET r == get_next(q, t) IN
         IF r.ret = <<>>
         THEN {Tick(r.q, <<>>, <<>>, r.expired, FALSE)}
         ELSE LET req == r.ret[1] IN
              IF MalformedContext(req)
              THEN {Tick(release_current(r.q, t), <<>>, r.ret, <<>>, FALSE)}
              ELSE IF OptolinkBusy(depth)
              THEN {Tick(retry_current(r.q, t), <<>>, r.ret, <<>>, TRUE)}
              ELSE {IF success
                    THEN Tick(r.q, <<req.callback_arg>>, r.ret, <<>>, FALSE)
                    ELSE Tick(retry_current(r.q, t), <<>>, r.ret, <<>>, TRUE)
                    : success \in results}

\* loop() dereferences the CbArg of a write request (cbArg->dp->encode)
LoopReadsFreed ==
    /\ is_ready
    /\ LET r == get_next(smart_queue_, now) IN
         /\ r.ret # <<>>
         /\ r.ret[1].is_write
         /\ r.ret[1].callback_arg.id \in freed
         /\ ~OptolinkBusy(queue_size)

\* one tick against a transport whose push gives one of results
Dispatch(results) ==
    /\ ~crashed
    /\ \/ /\ LoopReadsFreed
          /\ crashed' = TRUE
          /\ event' = Event("loop", NoKey, NULL, FALSE, <<>>, {})
          /\ UNCHANGED <<smart_queue_, opto_queue, timed_out, retry_age, dispatched>>
       \/ \E k \in loop(smart_queue_, now, is_ready, queue_size, results) :
            /\ smart_queue_' = k.q
            /\ opto_queue' = opto_queue \o k.push
            /\ timed_out' = timed_out \cup {x.callback_arg.id : x \in Range(k.expired)}
            /\ retry_age' = IF k.retried /\ (smart_queue_.has_current_ \/ k.got # <<>>)
                            THEN 0 ELSE retry_age
            /\ release_age' = IF StoreArgs(smart_queue_) \ StoreArgs(k.q) # {}
                              THEN 0 ELSE release_age
            /\ push_age' = IF k.push # <<>> THEN 0 ELSE push_age
            /\ last_class' = IF k.push # <<>> THEN Class(k.got[1]) ELSE "none"
            /\ event' = Event("loop", NoKey,
                              IF k.push = <<>> THEN NULL ELSE k.push[1],
                              k.push # <<>>, k.got,
                              StoreArgs(smart_queue_) \ StoreArgs(k.q))
            /\ UNCHANGED crashed
    /\ UNCHANGED <<now, opto_ready, producer, next_arg, freed, requests, advances>>

Loop == Dispatch(PushResults)

\* a tick against a transport that accepts as long as it holds fewer than
\* OPTOLINK_MAX pushes
LoopDeep == Dispatch(TransportResults)

----------------------------------------------------------------------------
(* VitoConnect::_onData and VitoConnect::_onError: the transport completes   *)
(* the oldest accepted push and hands its token back.                        *)

\* the pending flags after an _onData that skips the length test
DataReceivedAnyLength(pend, arg, data, len_ok) ==
    IF arg.dp \in pend /\ ~arg.w /\ arg.d # <<>> /\ arg.d = <<data>>
    THEN pend \ {arg.dp}
    ELSE pend

\* the pending flags after _onData: only a verification read that received
\* the written bytes at the expected length clears the flag of its point
DataReceived(pend, arg, data, len_ok) ==
    IF arg.dp \in pend /\ ~arg.w /\ arg.d # <<>> /\ len_ok /\ arg.d = <<data>>
    THEN pend \ {arg.dp}
    ELSE pend

\* release_current() and "delete cbArg", common to both handlers; an access
\* to a CbArg that was deleted before may also bring the program down
Complete(op, pend, got) ==
    /\ ~crashed
    /\ opto_queue # <<>>
    /\ LET arg == Head(opto_queue) IN
         \/ /\ arg.id \in freed
            /\ crashed' = TRUE
            /\ event' = Event(op, NoKey, arg, FALSE, got, {})
            /\ UNCHANGED <<smart_queue_, opto_queue, freed, pending, dispatched>>
         \/ /\ smart_queue_' = release_current(smart_queue_, now)
            /\ opto_queue' = Tail(opto_queue)
            /\ freed' = freed \cup {arg.id}
            /\ pending' = pend
            /\ release_age' = IF StoreArgs(smart_queue_) \ StoreArgs(smart_queue_') # {}
                              THEN 0 ELSE release_age
            /\ last_class' = "none"
            /\ event' = Event(op, NoKey, arg, TRUE, got,
                              StoreArgs(smart_queue_) \ StoreArgs(smart_queue_'))
            /\ UNCHANGED <<crashed, push_age>>
    /\ UNCHANGED <<now, opto_ready, num_points, dp_value, last_datapoint_index,
                   cleanup_counter, next_arg, timed_out, retry_age, requests, advances>>

onData ==
    /\ opto_queue # <<>>
    /\ \E data \in Values, len_ok \in BOOLEAN :
         Complete("onData", DataReceived(pending, Head(opto_queue), data, len_ok),
                  <<data, len_ok>>)

onError ==
    Complete("onError", pending, <<>>)

----------------------------------------------------------------------------
(* SmartQueue::cleanup_stale *)

CleanupStale ==
    /\ ~crashed
    /\ smart_queue_' = cleanup_stale(smart_queue_, now)
    /\ event' = Event("cleanup", NoKey, NULL, TRUE, <<>>,
                      StoreArgs(smart_queue_) \ StoreArgs(smart_queue_'))
    /\ UNCHANGED <<now, opto_ready, opto_queue, producer, next_arg, freed, crashed,
                   timed_out, retry_age, dispatched, requests, advances>>

----------------------------------------------------------------------------
(* The clock *)

\* an age d later, counted up to INTER_COMM_DELAY_MS
Aged(age, d) ==
    IF age < 0 THEN age
    ELSE IF d[1] > 0 \/ age + d[2] >= INTER_COMM_DELAY_MS THEN INTER_COMM_DELAY_MS
    ELSE age + d[2]

Advance(d) ==
    /\ ~crashed
    /\ advances < MaxAdvance
    /\ now' = Add32(now, d)
    /\ advances' = advances + 1
    /\ retry_age' = IF retry_age < 0 THEN retry_age
                     ELSE IF d[1] > 0 \/ retry_age + d[2] >= RETRY_DELAY_MS
                     THEN RETRY_DELAY_MS
                     ELSE retry_age + d[2]
    /\ release_age' = Aged(release_age, d)
    /\ push_age' = Aged(push_age, d)
    /\ event' = Event("advance", NoKey, NULL, FALSE, <<>>, {})
    /\ UNCHANGED <<smart_queue_, opto_ready, opto_queue, producer, next_arg, freed,
                   crashed, timed_out, last_class, requests>>

\* the clock running on, for as long as the device is up
Runs(d) ==
    /\ ~crashed
    /\ now' = Add32(now, d)
    /\ retry_age' = IF retry_age < 0 THEN retry_age
                     ELSE IF d[1] > 0 \/ retry_age + d[2] >= RETRY_DELAY_MS
                     THEN RETRY_DELAY_MS
                     ELSE retry_age + d[2]
    /\ release_age' = Aged(release_age, d)
    /\ push_age' = Aged(push_age, d)
    /\ event' = Event("advance", NoKey, NULL, FALSE, <<>>, {})
    /\ UNCHANGED <<smart_queue_, opto_ready, opto_queue, producer, next_arg, freed,
                   crashed, timed_out, last_class, requests, advances>>

\* the clock running on between two ticks
Elapse(d) == event.op = "loop" /\ Runs(d)

\* the clock running on between two periodic cleanups of update()
ElapseAfterCleanup(d) == event.op = "update" /\ cleanup_counter = 0 /\ Runs(d)

Millisecond == U32(0, 1)
Delay == U32(0, INTER_COMM_DELAY_MS)
Timeout == U32(0, REQUEST_TIMEOUT_MS)
\* from boot to 50 ms before the clock wraps
Uptime == Sub32(Zero32, Delay)
\* a quarter of the range of the clock (2^30 ms)
Quarter == U32(Half \div 4, 0)
\* half of the range of the clock (2^31 ms)
HalfRange == U32(Half \div 2, 0)

----------------------------------------------------------------------------
(* The scheduler driven through its interface, with any request keys *)

Keys == (1..MaxAddr) \X BOOLEAN \X (1..MaxComp)

Next ==
    \/ \E key \in Keys : Enqueue(key[1], key[2], key[3])
    \/ OptolinkLoop
    \/ Loop
    \/ onData
    \/ onError
    \/ CleanupStale
    \/ \E d \in {Millisecond, Delay, Timeout} : Advance(d)

Spec == Init /\ [][Next]_vars

(* The same, on a device whose clock wraps *)

NextWrap ==
    \/ \E key \in Keys : Enqueue(key[1], key[2], key[3])
    \/ OptolinkLoop
    \/ Loop
    \/ onData
    \/ onError
    \/ CleanupStale
    \/ \E d \in {Millisecond, Delay, Uptime} : Advance(d)

SpecWrap == Init /\ [][NextWrap]_vars

(* The producer filling the store to its capacity from FillPoints points *)

NextFill ==
    \/ update
    \/ \E i \in Writable : Modify(i, MaxValue)
    \/ OptolinkLoop
    \/ Loop
    \/ onData
    \/ onError
    \/ (advances < MaxFillAdvance /\ Advance(Delay))

SpecFill == InitFill /\ [][NextFill]_vars

(* The producer walking its points in batches while the dispatcher does not  *)
(* run, for the point counts of the documentation's examples and for one     *)
(* above the capacity of the store                                           *)

BatchPoints == {35, 60, MaxPoints}

InitBatch == \E n \in BatchPoints : Boot(n)

NextBatch ==
    \/ update
    \/ \E i \in Writable : Modify(i, MaxValue)
    \/ \E i \in Writable, w \in BOOLEAN : Request(PointAddress(i), w, PointCompId(i))

SpecBatch == InitBatch /\ [][NextBatch]_vars

(* The producer and the dispatcher on the points of Init: a local            *)
(* modification, its write and its verification read                         *)

NextVerify ==
    \/ (next_arg <= MaxArgs /\ update)
    \/ \E i \in Writable, v \in Values : Modify(i, v)
    \/ OptolinkLoop
    \/ Loop
    \/ onData
    \/ onError
    \/ Advance(Delay)

SpecVerify == Init /\ [][NextVerify]_vars

(* The dispatcher against a transport that queues up to OPTOLINK_MAX pushes  *)

NextBusy ==
    \/ \E key \in Keys : Request(key[1], key[2], key[3])
    \/ OptolinkLoop
    \/ LoopDeep
    \/ onData
    \/ Advance(Delay)

SpecBusy == Init /\ [][NextBusy]_vars

(* Reads of one address requested by two components *)

DualOwners == {1, 2}

NextDual ==
    \/ \E c \in DualOwners : Enqueue(PointAddress(1), FALSE, c)
    \/ OptolinkLoop
    \/ Loop
    \/ onData
    \/ onError
    \/ Advance(Delay)

SpecDual == Init /\ [][NextDual]_vars

(* Requests without a completion context among the others *)

NextNull ==
    \/ \E key \in Keys : Enqueue(key[1], key[2], key[3])
    \/ \E key \in Keys : RequestNull(key[1], key[2], key[3])
    \/ OptolinkLoop
    \/ Loop
    \/ onData
    \/ onError
    \/ Advance(Delay)

SpecNull == Init /\ [][NextNull]_vars

(* A transport that leaves its initialisation once, accepts pushes and never *)
(* completes one, with loop() called at every value a clock that keeps       *)
(* running takes                                                             *)

NextStuck ==
    \/ \E key \in Keys : Enqueue(key[1], key[2], key[3])
    \/ (~opto_ready /\ OptolinkLoop)
    \/ Loop
    \/ Elapse(Quarter)

SpecStuck ==
    /\ Init
    /\ [][NextStuck]_vars
    /\ WF_vars(~opto_ready /\ OptolinkLoop)
    /\ WF_vars(Loop)
    /\ WF_vars(Elapse(Quarter))

(* A point modified once more while its write and its verification read     *)
(* are on their way, during the first MaxPairClock milliseconds              *)

NextPair ==
    \/ (next_arg <= MaxArgs /\ update)
    \/ \E i \in Writable, v \in Values : Modify(i, v)
    \/ \E i \in Writable, v \in Values : ModifyAgain(i, v)
    \/ OptolinkLoop
    \/ Loop
    \/ onData
    \/ onError
    \/ (Lt32(now, MaxPairClock) /\ Elapse(Delay))

SpecPair == Init /\ [][NextPair]_vars

(* The scheduler with the periodic cleanup of update(): requests of any key, *)
(* no registered point, a transport that may or may not complete its pushes, *)
(* and a clock that keeps running; update() reaches its cleanup at least     *)
(* once in every half of the clock's range                                   *)

InitDrain == Boot(0)

NextDrain ==
    \/ \E key \in Keys : Request(key[1], key[2], key[3])
    \/ (~opto_ready /\ OptolinkLoop)
    \/ Loop
    \/ onData
    \/ update
    \/ ElapseAfterCleanup(HalfRange)

SpecDrain ==
    /\ InitDrain
    /\ [][NextDrain]_vars
    /\ WF_vars(Loop)
    /\ WF_vars(update)
    /\ SF_vars(ElapseAfterCleanup(HalfRange))

----------------------------------------------------------------------------
(* Properties *)

Key(r) == <<r.address, r.is_write, r.component_type>>

\* a clock value as a number of milliseconds (for clocks that did not wrap)
Ms(t) == t[1] * Half + t[2]

\* the milliseconds from the clock value t0 to the clock value t1
Elapsed(t0, t1) == Ms(t1) - Ms(t0)

Completions == {"onData", "onError"}

\* the pushes the transport holds for requests that did not time out
Awaited == {i \in DOMAIN opto_queue : opto_queue[i].id \notin timed_out}

\* C1: the store never holds two requests with the same (address, is_write,
\* component id)
StoreKeysUnique ==
    \A i, j \in DOMAIN Store(smart_queue_) :
        i # j => Key(Store(smart_queue_)[i]) # Key(Store(smart_queue_)[j])

\* C2: at most one push accepted by the transport awaits its completion,
\* pushes of timed-out requests aside
SinglePushAwaited == Cardinality(Awaited) <= 1

\* C3: a completion handler that ran removed from the store exactly the
\* request its token belongs to
CompletionReleasesOwnRequest ==
    (event.op \in Completions /\ event.ret)
        => /\ event.removed = {event.arg.id}
           /\ event.arg.id \notin StoreArgs(smart_queue_)

\* C4: as long as an accepted push awaits its completion and did not time
\* out, its request is the one the in-flight flag selects
InFlightUntilCompletion ==
    \A i \in Awaited :
        smart_queue_.has_current_ /\ CurrentArg(smart_queue_) = opto_queue[i]

\* C5: cleanup_stale() leaves the in-flight request in place
CleanupKeepsInFlight ==
    [][(event'.op = "cleanup" /\ get_current_ptr(smart_queue_) # <<>>)
         => get_current_ptr(smart_queue_') = get_current_ptr(smart_queue_)]_vars

\* C6: with both queues non-empty, get_next() does not return a read
WriteBeforeRead ==
    [][(event'.op = "loop" /\ event'.got # <<>>
        /\ smart_queue_.write_queue_ # <<>> /\ smart_queue_.read_queue_ # <<>>)
         => event'.got[1].is_write]_vars

\* C7: get_next() returns null when called less than RETRY_DELAY_MS after a
\* retry_current() that found a request selected
RetryThrottle ==
    [][(event'.op = "loop" /\ retry_age >= 0 /\ retry_age < RETRY_DELAY_MS)
         => event'.got = <<>>]_vars

\* C8, as stated: cleanup_stale() removes the requests of age >= 30000 ms
\* and no others
StaleFromTimeout ==
    [][event'.op = "cleanup"
         => \A r \in Range(Store(smart_queue_)) :
              (r \notin Range(Store(smart_queue_')))
                <=> Elapsed(r.enqueue_time, now) >= REQUEST_TIMEOUT_MS]_vars

\* C8, amended: cleanup_stale() removes the requests of age > 30000 ms and
\* no others; a request aged exactly 30000 ms stays
StaleAfterTimeout ==
    [][event'.op = "cleanup"
         => \A r \in Range(Store(smart_queue_)) :
              (r \notin Range(Store(smart_queue_')))
                <=> Elapsed(r.enqueue_time, now) > REQUEST_TIMEOUT_MS]_vars

\* a cleanup that evicted one request and kept another aged exactly 30000 ms
StaleEvicted ==
    /\ event.op = "cleanup"
    /\ event.removed # {}
    /\ \E r \in Range(Store(smart_queue_)) :
         Elapsed(r.enqueue_time, now) = REQUEST_TIMEOUT_MS

\* C9: the store never holds more than MAX_QUEUE_SIZE requests
StoreBounded == size(smart_queue_) <= MAX_QUEUE_SIZE

\* an update() that found the store full and had an enqueue rejected
StoreFullRejected ==
    /\ event.op = "update"
    /\ ~event.ret
    /\ size(smart_queue_) = MAX_QUEUE_SIZE

\* C10: the write queue never holds two requests with the same (address,
\* component id), and an enqueue of a write whose key is stored changes
\* neither queue
WritesNeverDuplicated ==
    /\ [](\A i, j \in DOMAIN smart_queue_.write_queue_ :
            i # j => Key(smart_queue_.write_queue_[i]) # Key(smart_queue_.write_queue_[j]))
    /\ [][(event'.op = "enqueue" /\ event'.key[2]
           /\ \E r \in Range(smart_queue_.write_queue_) : Key(r) = event'.key)
            => /\ smart_queue_'.write_queue_ = smart_queue_.write_queue_
               /\ smart_queue_'.read_queue_ = smart_queue_.read_queue_]_vars

\* a write enqueued again while stored: accepted as a duplicate, not stored
DuplicateWriteAvoided ==
    /\ event.op = "enqueue"
    /\ event.key[2]
    /\ event.ret
    /\ event.arg.id \notin StoreArgs(smart_queue_)
    /\ smart_queue_.write_queue_ # <<>>

\* C11, as stated: with more than DEDUP_READ_THRESHOLD reads queued, an
\* enqueue of a read whose key is in the read queue leaves the store
\* unchanged and returns true
ReadsDeduplicatedWhenLarge ==
    [][(event'.op = "enqueue" /\ ~event'.key[2]
        /\ Len(smart_queue_.read_queue_) > DEDUP_READ_THRESHOLD
        /\ \E r \in Range(smart_queue_.read_queue_) : Key(r) = event'.key)
         => (smart_queue_' = smart_queue_ /\ event'.ret)]_vars

\* C11, amended: such an enqueue leaves the store unchanged; it returns true
\* when the store holds fewer than MAX_QUEUE_SIZE requests and false when
\* the store is full
ReadsDeduplicatedWithRoom ==
    [][(event'.op = "enqueue" /\ ~event'.key[2]
        /\ Len(smart_queue_.read_queue_) > DEDUP_READ_THRESHOLD
        /\ \E r \in Range(smart_queue_.read_queue_) : Key(r) = event'.key)
         => /\ smart_queue_' = smart_queue_
            /\ event'.ret = (size(smart_queue_) < MAX_QUEUE_SIZE)]_vars

\* a read enqueued again while queued among more than DEDUP_READ_THRESHOLD
\* reads, with room in the store: accepted as a duplicate, not stored
DuplicateReadAvoided ==
    /\ event.op = "enqueue"
    /\ ~event.key[2]
    /\ event.ret
    /\ event.arg.id \notin StoreArgs(smart_queue_)
    /\ Len(smart_queue_.read_queue_) > DEDUP_READ_THRESHOLD
    /\ size(smart_queue_) < MAX_QUEUE_SIZE

\* C12: a loop() tick that finds the transport not ready does not call
\* get_next() and pushes nothing
NoPushWhileNotReady ==
    [][(event'.op = "loop" /\ ~opto_ready)
         => (event'.got = <<>> /\ opto_queue' = opto_queue)]_vars

\* a tick held back by the readiness gate with requests stored
HeldWhileNotReady ==
    /\ event.op = "loop"
    /\ ~opto_ready
    /\ size(smart_queue_) > 0
    /\ event.got = <<>>

\* C13: get_next() does not select a request (idle to in flight) less than
\* INTER_COMM_DELAY_MS after a release_current() that removed a request
PacingAfterRelease ==
    [][(event'.op = "loop" /\ ~smart_queue_.has_current_ /\ event'.got # <<>>)
         => ~(release_age >= 0 /\ release_age < INTER_COMM_DELAY_MS)]_vars

\* a request selected and pushed once the spacing after a release had elapsed
SelectedAfterPacing ==
    /\ event.op = "loop"
    /\ event.ret
    /\ Len(opto_queue) = 1
    /\ release_age = INTER_COMM_DELAY_MS

\* C14: a push is not accepted less than INTER_COMM_DELAY_MS after the
\* previous accepted push
PushesSpaced ==
    [][(event'.op = "loop" /\ event'.ret)
         => ~(push_age >= 0 /\ push_age < INTER_COMM_DELAY_MS)]_vars

\* C15: a get_next() call that follows a call which returned a request, with
\* no release_current() or retry_current() call between the two, does not
\* return a request of the other class
ClassKeptWhileInFlight ==
    [][(event'.op = "loop" /\ event'.got # <<>> /\ last_class # "none")
         => Class(event'.got[1]) = last_class]_vars

\* two get_next() calls in a row returned the read in flight, no release or
\* retry ever made, while a write was queued
SameClassReturned ==
    /\ event.op = "loop"
    /\ event.ret
    /\ Len(opto_queue) = 2
    /\ retry_age = -1
    /\ release_age = -1
    /\ last_class = "read"
    /\ smart_queue_.write_queue_ # <<>>

VerificationReadQueued ==
    (event.op = "update" /\ event.ret)
        => \A i \in pending :
             /\ \E r \in Range(smart_queue_.write_queue_) :
                  r.address = PointAddress(i)
             /\ \E r \in Range(smart_queue_.read_queue_) :
                  /\ r.address = PointAddress(i)
                  /\ r.callback_arg.d = <<dp_value[i]>>

\* the allocation counter after pass 1 of an update() made in this state
Pass1Next ==
    Pass1(1, num_points,
          [q |-> smart_queue_, next |-> next_arg, freed |-> freed, ok |-> TRUE],
          now, pending, dp_value).next

\* the points pass 2 visits in an update() step: one CbArg each
Visits == next_arg' - Pass1Next

Min(a, b) == IF a < b THEN a ELSE b

\* C18: with no pending write and no rejection, update() visits the
\* Min(BATCH_SIZE, remaining) points that follow the cursor, each leaving
\* its read in the store, and saves the next index, or 0 when the list ended
BatchedWalk ==
    [][(event'.op = "update" /\ pending = {} /\ event'.ret)
         => /\ Visits = Min(BATCH_SIZE, num_points - last_datapoint_index)
            /\ last_datapoint_index' =
                 IF Visits = BATCH_SIZE THEN last_datapoint_index + Visits ELSE 0
            /\ \A k \in 1..Visits :
                 \E r \in Range(smart_queue_'.read_queue_) :
                     Key(r) = <<PointAddress(last_datapoint_index + k), FALSE,
                                PointCompId(last_datapoint_index + k)>>
            /\ \A r \in Range(smart_queue_'.read_queue_) :
                 r.callback_arg.id >= next_arg
                     => r.address = PointAddress(last_datapoint_index + 1
                                                 + r.callback_arg.id - next_arg)]_vars

\* 35 points walked in two calls: 35 reads stored, the cursor back at 0
WalkCompleted ==
    /\ event.op = "update"
    /\ event.ret
    /\ num_points = 35
    /\ next_arg = 36
    /\ last_datapoint_index = 0
    /\ Len(smart_queue_.read_queue_) = 35

\* C19: with a point count that is a multiple of BATCH_SIZE, the update()
\* that visits the last points of the list resets the cursor to 0
WalkEndsAtCursorZero ==
    [][(event'.op = "update" /\ pending = {} /\ event'.ret
        /\ num_points % BATCH_SIZE = 0
        /\ Visits > 0
        /\ last_datapoint_index + Visits = num_points)
         => last_datapoint_index' = 0]_vars

\* C20: pass 2 of an update() visits at most BATCH_SIZE points
BatchVisitsBounded ==
    [][event'.op = "update" => Visits <= BATCH_SIZE]_vars

\* C21: every update() call counts towards the cleanup: the counter goes up
\* by one, and back to 0 with the cleanup_stale() of the CLEANUP_PERIOD-th call
CleanupEveryTenthUpdate ==
    [][event'.op = "update"
         => cleanup_counter' = (cleanup_counter + 1) % CLEANUP_PERIOD]_vars

\* C22: a tick that finds the transport queue above 0.8 of OPTOLINK_MAX
\* pushes nothing, and defers with retry_current() the request get_next()
\* returned
NoPushAboveWatermark ==
    [][(event'.op = "loop" /\ Len(opto_queue) * 10 > OPTOLINK_MAX * 8)
         => /\ opto_queue' = opto_queue
            /\ event'.got # <<>>
                 => /\ ~smart_queue_'.has_current_
                    /\ smart_queue_'.last_retry_time_ = now
                    /\ Store(smart_queue_') = Store(smart_queue_)]_vars

\* a request deferred by the watermark
BackPressure ==
    /\ event.op = "loop"
    /\ Len(opto_queue) * 10 > OPTOLINK_MAX * 8
    /\ event.got # <<>>
    /\ ~event.ret
    /\ ~smart_queue_.has_current_
    /\ retry_age = 0

DualOwnerIndependence ==
    /\ [][(event'.op = "enqueue" /\ ~QueueFull(smart_queue_)
           /\ \A r \in Range(Store(smart_queue_)) : Key(r) # event'.key)
            => event'.arg.id \in StoreArgs(smart_queue_')]_vars
    /\ [][(event'.op \in Completions /\ event'.ret)
            => event'.removed = {event'.arg.id}]_vars

\* C26: an enqueue whose key is stored returns true and leaves the store as
\* it is
DuplicateAlwaysMerged ==
    [][(event'.op = "enqueue"
        /\ \E r \in Range(Store(smart_queue_)) : Key(r) = event'.key)
         => (event'.ret /\ smart_queue_' = smart_queue_)]_vars

\* C27: a tick in which get_next() returns a request with a null context
\* pushes nothing, removes the request from the front of its class, clears
\* the in-flight flag and starts no retry
MalformedContextReleased ==
    [][(event'.op = "loop" /\ event'.got # <<>>
        /\ event'.got[1].callback_arg = NULL)
         => /\ opto_queue' = opto_queue
            /\ ~smart_queue_'.has_current_
            /\ smart_queue_'.last_retry_time_ = Zero32
            /\ retry_age' = retry_age
            /\ IF event'.got[1].is_write
               THEN /\ event'.got[1] = Head(smart_queue_.write_queue_)
                    /\ smart_queue_'.write_queue_ = Tail(smart_queue_.write_queue_)
                    /\ smart_queue_'.read_queue_ = smart_queue_.read_queue_
               ELSE /\ event'.got[1] = Head(smart_queue_.read_queue_)
                    /\ smart_queue_'.read_queue_ = Tail(smart_queue_.read_queue_)
                    /\ smart_queue_'.write_queue_ = smart_queue_.write_queue_]_vars

\* a request with a null context dropped by the tick that selected it
MalformedDropped ==
    /\ event.op = "loop"
    /\ event.got # <<>>
    /\ event.got[1].callback_arg = NULL
    /\ ~event.ret
    /\ event.removed = {NULL.id}
    /\ ~smart_queue_.has_current_

\* C28: a get_next() call made with nothing in flight returns the front of
\* the write queue when there is one, the front of the read queue otherwise
NewSelectionWriteFirst ==
    [][(event'.op = "loop" /\ ~smart_queue_.has_current_ /\ event'.got # <<>>)
         => event'.got[1] = IF smart_queue_.write_queue_ # <<>>
                            THEN Head(smart_queue_.write_queue_)
                            ELSE Head(smart_queue_.read_queue_)]_vars

\* the first selection ever made took a write while a read was queued
WriteSelectedFirst ==
    /\ event.op = "loop"
    /\ event.ret
    /\ event.got[1].is_write
    /\ smart_queue_.read_queue_ # <<>>
    /\ Len(opto_queue) = 1
    /\ retry_age = -1
    /\ release_age = -1

\* C29: an enqueue made while a request is in flight leaves the in-flight
\* request and the in-flight flag as they are, and the queues keep their
\* requests in place, a stored request being added at the tail
EnqueueKeepsInFlight ==
    [][(event'.op = "enqueue" /\ get_current_ptr(smart_queue_) # <<>>)
         => /\ get_current_ptr(smart_queue_') = get_current_ptr(smart_queue_)
            /\ smart_queue_'.has_current_ = smart_queue_.has_current_
            /\ smart_queue_'.current_is_write_ = smart_queue_.current_is_write_
            /\ SubSeq(smart_queue_'.write_queue_, 1, Len(smart_queue_.write_queue_))
                 = smart_queue_.write_queue_
            /\ SubSeq(smart_queue_'.read_queue_, 1, Len(smart_queue_.read_queue_))
                 = smart_queue_.read_queue_]_vars

\* a request stored behind the in-flight request of its class
EnqueuedBehindInFlight ==
    /\ event.op = "enqueue"
    /\ event.ret
    /\ smart_queue_.has_current_
    /\ event.key[2] = smart_queue_.current_is_write_
    /\ event.arg.id \in StoreArgs(smart_queue_)
    /\ CurrentArg(smart_queue_).id # event.arg.id

\* loop() called retry_current() in this step with a request selected
Retried ==
    /\ event'.op = "loop"
    /\ \/ ~opto_ready /\ smart_queue_.has_current_
       \/ /\ opto_ready
          /\ event'.got # <<>>
          /\ ~event'.ret
          /\ event'.got[1].callback_arg # NULL

\* C30: retry_current() with a request selected clears the in-flight flag,
\* records the time of the retry, and leaves both queues and the pacing
\* timestamp as they are
RetryKeepsQueues ==
    [][Retried
         => /\ ~smart_queue_'.has_current_
            /\ smart_queue_'.last_retry_time_ = now
            /\ smart_queue_'.write_queue_ = smart_queue_.write_queue_
            /\ smart_queue_'.read_queue_ = smart_queue_.read_queue_
            /\ smart_queue_'.last_comm_time_ = smart_queue_.last_comm_time_]_vars

\* a selected request deferred after a rejected push, still in the store
RetriedStillQueued ==
    /\ event.op = "loop"
    /\ event.got # <<>>
    /\ ~event.ret
    /\ ~smart_queue_.has_current_
    /\ smart_queue_.last_retry_time_ = now
    /\ smart_queue_.last_comm_time_ # now
    /\ event.got[1] \in Range(Store(smart_queue_))

\* the queue of the class of a request
ClassQueue(q, req) == IF req.is_write THEN q.write_queue_ ELSE q.read_queue_

\* C31: the request get_next() returns is the one of its class that was
\* enqueued first: no stored request of the class has an older context
\* (contexts are numbered in the order of the enqueue calls)
SelectedOldestOfClass ==
    [][(event'.op = "loop" /\ event'.got # <<>>)
         => \A r \in Range(ClassQueue(smart_queue_, event'.got[1])) :
                r.callback_arg.id >= event'.got[1].callback_arg.id]_vars

\* a request pushed while a request of its class enqueued later waits
OlderSelectedFirst ==
    /\ event.op = "loop"
    /\ event.ret
    /\ \E r \in Range(ClassQueue(smart_queue_, event.got[1])) :
           r.callback_arg.id > event.got[1].callback_arg.id

\* C32: enqueue() returns false exactly when the store holds MAX_QUEUE_SIZE
\* requests, and a call that returns false leaves the queues, the in-flight
\* flag and both timestamps as they are; an update() that had an enqueue
\* refused leaves a store of MAX_QUEUE_SIZE requests
RejectedOnlyWhenFull ==
    /\ [][event'.op = "enqueue"
            => /\ event'.ret = (size(smart_queue_) < MAX_QUEUE_SIZE)
               /\ ~event'.ret => smart_queue_' = smart_queue_]_vars
    /\ [][(event'.op = "update" /\ ~event'.ret /\ event'.removed = {})
            => size(smart_queue_') = MAX_QUEUE_SIZE]_vars

\* a request refused by a store of MAX_QUEUE_SIZE requests
FullStoreRefuses ==
    /\ event.op = "enqueue"
    /\ ~event.ret
    /\ size(smart_queue_) = MAX_QUEUE_SIZE
    /\ event.arg.id \notin StoreArgs(smart_queue_)

\* the contexts of the pushes the transport holds
Outstanding == {opto_queue[i].id : i \in DOMAIN opto_queue}

\* loop() pushed a verification read in this step (update() allocates the
\* context of a write right before the context of its verification read)
VerificationPushed ==
    /\ event'.op = "loop"
    /\ event'.ret
    /\ event'.arg.d # <<>>

\* C33: when a verification read is pushed its write has left the store and
\* its completion handler has run
VerificationAfterWrite ==
    [][VerificationPushed
         => /\ event'.arg.id - 1 \notin StoreArgs(smart_queue_)
            /\ event'.arg.id - 1 \in freed]_vars

\* C34: no stored request and no outstanding push refers to a deleted
\* context, no context is outstanding twice, and no deleted context was used
ContextsLive ==
    /\ ~crashed
    /\ StoreArgs(smart_queue_) \cap freed = {}
    /\ Outstanding \cap freed = {}
    /\ \A i, j \in DOMAIN opto_queue : opto_queue[i].id = opto_queue[j].id => i = j

\* C35: a request the dispatcher or a completion handler removes from the
\* store had a null context, or timed out, or was pushed to the transport
\* before (its push is outstanding or its completion handler ran)
ReleasedAfterPush ==
    [][event'.op \in Completions \cup {"loop"}
         => \A id \in event'.removed :
                \/ id = NULL.id
                \/ id \in timed_out'
                \/ id \in Outstanding \cup freed]_vars

\* the stored requests that refer to the context id
Referring(q, id) == {i \in DOMAIN Store(q) : Store(q)[i].callback_arg.id = id}

\* C36: when update() returns, each context it allocated is deleted or is
\* the context of exactly one stored request
AllocatedContextsOwned ==
    [][event'.op = "update"
         => \A id \in next_arg..(next_arg' - 1) :
                \/ id \in freed'
                \/ Cardinality(Referring(smart_queue_', id)) = 1]_vars

\* C37: a verification read that clears the pending flag of a point compared
\* the received bytes against the local value the point has at that moment
ConfirmedValueIsLocal ==
    [][(event'.op = "onData" /\ pending' # pending)
         => event'.arg.d = <<dp_value[event'.arg.dp]>>]_vars

\* C38: a completion handler that calls release_current() with the in-flight
\* flag clear leaves the queues, the flag and both timestamps as they are
ReleaseWithoutCurrentIsNoOp ==
    [][(event'.op \in Completions /\ event'.ret /\ ~smart_queue_.has_current_)
         => smart_queue_' = smart_queue_]_vars

\* a completion that arrived after the flag was cleared and left the store,
\* its own request included, and the pacing timestamp alone
ReleaseFoundNothing ==
    /\ event.op \in Completions
    /\ event.ret
    /\ event.removed = {}
    /\ event.arg.id \in StoreArgs(smart_queue_)
    /\ ~smart_queue_.has_current_
    /\ smart_queue_.last_comm_time_ # now

====
